---- MODULE Spec2Model ----
(***************************************************************************)
(* Model of spanner_orm/admin/metadata.py: DatabaseMetadata.               *)
(*                                                                         *)
(* The three catalog relations (ColumnSchema, IndexColumnSchema,           *)
(* IndexSchema) are sequences of rows in the database's physical order.    *)
(* _tables, _indexes and models fold the fetched rows into nested maps;    *)
(* column_update, create_table and index_update read the model map, check  *)
(* the request against it, validate it, render its DDL and submit it.      *)
(*                                                                         *)
(* Python dicts are functions with a finite domain; a defaultdict is read  *)
(* with GetDefault.  Python None (and SQL NULL) is the integer None.       *)
(***************************************************************************)
EXTENDS Integers, Sequences, FiniteSets, TLC

VARIABLES
  catalog,        \* the database's live catalog: the three relations' rows
  snapshots,      \* transaction handle -> the catalog state that handle reads,
                  \* and when each fetch through it was issued
  called,         \* direct (single-step) calls: the function that was called
  result,         \* direct calls: what it returned
  pc,             \* per caller: where its call stands
  method,         \* per caller: the classmethod it invoked
  schema_change,  \* per caller: the request it passed
  transaction,    \* per caller: the transaction argument of models()
  tables,         \* per caller: the local `tables` of models()
  index_columns,  \* per caller: the local `index_columns` of _indexes()
  all_models,     \* per caller: what cls.models() gave the calling method
  statement,      \* per caller: the rendered DDL awaiting submission
  events,         \* per caller: the collaborator calls made so far, in order
  outcome,        \* per caller: what the call returned or raised
  changes         \* number of schema changes made by other actors

vars == <<catalog, snapshots, called, result, pc, method, schema_change,
          transaction, tables, index_columns, all_models, statement, events,
          outcome, changes>>

None == -1

-----------------------------------------------------------------------------
(* Bounds *)

MaxColumnRows == 3
MaxIndexColumnRows == 3
MaxIndexRows == 2
MaxExternalChanges == 1

-----------------------------------------------------------------------------
(* Python containers *)

EmptyMap == [k \in {} |-> {}]

Put(m, k, v) == [x \in (DOMAIN m) \cup {k} |-> IF x = k THEN v ELSE m[x]]

GetDefault(m, k, default) == IF k \in DOMAIN m THEN m[k] ELSE default

BoundedSeq(S, n) == UNION {[1..k -> S] : k \in 0..n}

\* How a call ends: with a value, or with an exception.
Return(value) == [ok |-> TRUE, value |-> value]
Raise(error) == [ok |-> FALSE, error |-> error]

\* The exceptions the code itself raises, as the caller receives them.
AssertionError == [exception |-> "AssertionError", args |-> <<>>]
KeyError(key) == [exception |-> "KeyError", args |-> <<key>>]

\* A call that has not ended, and a request that has not been passed.
Pending == Raise([exception |-> "none", args |-> <<>>])
NoRequest == [variant |-> "none", table |-> "none"]

-----------------------------------------------------------------------------
(* The catalog fetch primitive: Schema.where(transaction, *conditions) *)

\* The catalog state a fetch issued with `txn` observes: the live catalog
\* when no transaction is passed, the handle's snapshot otherwise.
Read(txn) == IF txn = None THEN catalog ELSE snapshots[txn].catalog

\* A transaction begun now, and the handles after a fetch through txn; a
\* handle notes how many schema changes other actors had made at each fetch.
Begin == [catalog |-> catalog, read_at |-> <<>>]

Fetched(txn) ==
  IF txn = None THEN snapshots
  ELSE [snapshots EXCEPT ![txn].read_at = Append(@, changes)]

\* EqualityCondition('table_catalog', ''), EqualityCondition('table_schema', '')
InDefaultNamespace(row) == row.table_catalog = "" /\ row.table_schema = ""

\* InequalityCondition('ordinal_position', None)
HasOrdinalPosition(row) == row.ordinal_position # None

\* OrderByCondition(('ordinal_position', OrderType.ASC)): rows with equal
\* positions keep the order the database holds them in.
RECURSIVE InsertByOrdinal(_, _)
InsertByOrdinal(sorted, row) ==
  IF sorted = <<>> THEN <<row>>
  ELSE IF sorted[Len(sorted)].ordinal_position <= row.ordinal_position
       THEN Append(sorted, row)
       ELSE Append(InsertByOrdinal(SubSeq(sorted, 1, Len(sorted) - 1), row),
                   sorted[Len(sorted)])

RECURSIVE OrderByOrdinalAsc(_)
OrderByOrdinalAsc(rows) ==
  IF rows = <<>> THEN <<>>
  ELSE InsertByOrdinal(OrderByOrdinalAsc(SubSeq(rows, 1, Len(rows) - 1)),
                       rows[Len(rows)])

ColumnSchema_where(txn) == SelectSeq(Read(txn).columns, InDefaultNamespace)

IndexColumnSchema_where(txn) ==
  LET inNamespace == SelectSeq(Read(txn).index_columns, InDefaultNamespace)
  IN OrderByOrdinalAsc(SelectSeq(inNamespace, HasOrdinalPosition))

IndexSchema_where(txn) == SelectSeq(Read(txn).indexes, InDefaultNamespace)

-----------------------------------------------------------------------------
(* DatabaseMetadata._tables *)

\* ColumnSchema.type()
type(schema) == schema.type

\* for schema in schemas: tables[schema.table_name][schema.column_name] = schema.type()
RECURSIVE tables_loop(_, _)
tables_loop(acc, schemas) ==
  IF schemas = <<>> THEN acc
  ELSE LET schema == Head(schemas)
           columns == GetDefault(acc, schema.table_name, EmptyMap)
       IN tables_loop(
            Put(acc, schema.table_name,
                Put(columns, schema.column_name, type(schema))),
            Tail(schemas))

\* A plausible slip: the table's entry is replaced instead of extended.
RECURSIVE tables_loop_replacing(_, _)
tables_loop_replacing(acc, schemas) ==
  IF schemas = <<>> THEN acc
  ELSE LET schema == Head(schemas)
       IN tables_loop_replacing(
            Put(acc, schema.table_name,
                Put(EmptyMap, schema.column_name, type(schema))),
            Tail(schemas))

_tables_replacing(txn) == tables_loop_replacing(EmptyMap, ColumnSchema_where(txn))

_tables(txn) == tables_loop(EmptyMap, ColumnSchema_where(txn))

-----------------------------------------------------------------------------
(* Row universes *)

TableNames == {"Users", "Orders"}
ColumnNames == {"id", "name"}
Types == {"INT64", "STRING"}

ColumnRowSet ==
  [table_catalog : {""}, table_schema : {"", "INFORMATION_SCHEMA"},
   table_name : TableNames, column_name : ColumnNames, type : Types]

EmptyCatalog == [columns |-> <<>>, index_columns |-> <<>>, indexes |-> <<>>]

\* Two concurrent callers; a caller's transaction handle bears its number.
Callers == {1, 2}

\* What the per-caller variables hold while no call is running.
Idle ==
  /\ pc = [c \in Callers |-> "idle"]
  /\ method = [c \in Callers |-> "none"]
  /\ schema_change = [c \in Callers |-> NoRequest]
  /\ transaction = [c \in Callers |-> None]
  /\ tables = [c \in Callers |-> EmptyMap]
  /\ index_columns = [c \in Callers |-> EmptyMap]
  /\ all_models = [c \in Callers |-> Pending]
  /\ statement = [c \in Callers |-> <<>>]
  /\ events = [c \in Callers |-> <<>>]
  /\ outcome = [c \in Callers |-> Pending]
  /\ changes = 0
  /\ snapshots = [c \in Callers |-> [catalog |-> EmptyCatalog, read_at |-> <<>>]]

callVars == <<pc, method, schema_change, transaction, tables, index_columns,
              all_models, statement, events, outcome, changes, snapshots>>

-----------------------------------------------------------------------------
(* Direct calls of _tables on every small ColumnSchema relation *)

InitTables ==
  /\ \E rows \in BoundedSeq(ColumnRowSet, MaxColumnRows) :
       catalog = [EmptyCatalog EXCEPT !.columns = rows]
  /\ called = "none"
  /\ result = None
  /\ Idle

Call_tables ==
  /\ called = "none"
  /\ called' = "_tables"
  /\ result' = _tables(None)
  /\ UNCHANGED <<catalog, callVars>>

SpecTables == InitTables /\ [][Call_tables]_vars

\* The index of the last fetched ColumnSchema row of column c of table t
\* (0 when there is none).
LastColumnRow(fetched, t, c) ==
  LET at == {i \in 1..Len(fetched) :
               fetched[i].table_name = t /\ fetched[i].column_name = c}
  IN IF at = {} THEN 0 ELSE CHOOSE i \in at : \A j \in at : j <= i

\* C7: _tables returns a map in which table t has column c with type ty
\* exactly when a fetched ColumnSchema row (t, c, ty) exists, the last
\* fetched row of a (t, c) pair deciding the type: no fetched column is
\* dropped, no table appears without a fetched row, and no column of one
\* table appears under another.
TablesGroupFetchedRows ==
  called = "_tables" =>
    LET fetched == ColumnSchema_where(None)
    IN /\ DOMAIN result = {fetched[i].table_name : i \in 1..Len(fetched)}
       /\ \A t \in DOMAIN result :
            /\ DOMAIN result[t] =
                 {fetched[i].column_name :
                    i \in {j \in 1..Len(fetched) : fetched[j].table_name = t}}
            /\ \A c \in DOMAIN result[t] :
                 result[t][c] = fetched[LastColumnRow(fetched, t, c)].type

\* A column was fetched twice with different types, next to a row outside
\* the default namespace.
TablesWitness ==
  /\ called = "_tables"
  /\ Len(catalog.columns) = 3
  /\ \E i, j \in 1..3 :
       /\ i < j
       /\ catalog.columns[i].table_name = catalog.columns[j].table_name
       /\ catalog.columns[i].column_name = catalog.columns[j].column_name
       /\ catalog.columns[i].type # catalog.columns[j].type
       /\ InDefaultNamespace(catalog.columns[i])
       /\ InDefaultNamespace(catalog.columns[j])
  /\ \E k \in 1..3 : ~InDefaultNamespace(catalog.columns[k])
  /\ DOMAIN result # {}

-----------------------------------------------------------------------------
(* DatabaseMetadata._indexes *)

\* for schema in index_column_schemas:
\*   index_columns[(schema.table_name, schema.index_name)].append(schema.column_name)
RECURSIVE index_columns_loop(_, _)
index_columns_loop(acc, schemas) ==
  IF schemas = <<>> THEN acc
  ELSE LET schema == Head(schemas)
           key == <<schema.table_name, schema.index_name>>
       IN index_columns_loop(
            Put(acc, key, Append(GetDefault(acc, key, <<>>), schema.column_name)),
            Tail(schemas))

\* A plausible slip: the fetch without its order-by and not-None conditions.
_indexes_index_columns_unconditioned(txn) ==
  index_columns_loop(EmptyMap,
                     SelectSeq(Read(txn).index_columns, InDefaultNamespace))

\* The first half of _indexes: the IndexColumnSchema fetch and its fold.
_indexes_index_columns(txn) ==
  index_columns_loop(EmptyMap, IndexColumnSchema_where(txn))

\* for schema in index_schemas:
\*   indexes[schema.table_name][schema.index_name] = {...}
RECURSIVE indexes_loop(_, _, _)
indexes_loop(acc, index_cols, schemas) ==
  IF schemas = <<>> THEN acc
  ELSE LET schema == Head(schemas)
           entry == [columns |-> GetDefault(index_cols,
                                   <<schema.table_name, schema.index_name>>, <<>>),
                     type |-> schema.index_type,
                     unique |-> schema.is_unique,
                     state |-> schema.index_state]
           ofTable == GetDefault(acc, schema.table_name, EmptyMap)
       IN indexes_loop(
            Put(acc, schema.table_name, Put(ofTable, schema.index_name, entry)),
            index_cols, Tail(schemas))

\* A plausible slip: the IndexSchema fetch is issued without the transaction.
_indexes_indexes_untransacted(txn, index_cols) ==
  indexes_loop(EmptyMap, index_cols, IndexSchema_where(None))

\* The second half of _indexes: the IndexSchema fetch and its fold.
_indexes_indexes(txn, index_cols) ==
  indexes_loop(EmptyMap, index_cols, IndexSchema_where(txn))

_indexes(txn) == _indexes_indexes(txn, _indexes_index_columns(txn))

-----------------------------------------------------------------------------
(* The IndexColumnSchema and IndexSchema relations _indexes is run on *)

IndexPairs ==
  {<<"Users", "PRIMARY_KEY">>, <<"Users", "ByName">>, <<"Orders", "PRIMARY_KEY">>}

Positions == {None, 1, 2}

\* The primary key of Users with either column in any position or none,
\* the secondary index of Users and the primary key of Orders with the rows
\* the database gives them, and one row of another namespace.
IndexColumnRowSet ==
  {[table_catalog |-> "", table_schema |-> "", table_name |-> "Users",
    index_name |-> "PRIMARY_KEY", column_name |-> c, ordinal_position |-> o] :
     c \in ColumnNames, o \in Positions}
  \cup {[table_catalog |-> "", table_schema |-> "", table_name |-> "Users",
         index_name |-> "ByName", column_name |-> "name", ordinal_position |-> 1],
        [table_catalog |-> "", table_schema |-> "", table_name |-> "Users",
         index_name |-> "ByName", column_name |-> "id", ordinal_position |-> None],
        [table_catalog |-> "", table_schema |-> "", table_name |-> "Orders",
         index_name |-> "PRIMARY_KEY", column_name |-> "id", ordinal_position |-> 1],
        [table_catalog |-> "", table_schema |-> "INFORMATION_SCHEMA",
         table_name |-> "Users", index_name |-> "PRIMARY_KEY",
         column_name |-> "id", ordinal_position |-> 1]}

IndexRow(t, i) ==
  [table_catalog |-> "", table_schema |-> "", table_name |-> t, index_name |-> i,
   index_type |-> IF i = "PRIMARY_KEY" THEN "PRIMARY_KEY" ELSE "INDEX",
   is_unique |-> (i = "PRIMARY_KEY"), index_state |-> "READ_WRITE"]

IndexRowSet == {IndexRow(p[1], p[2]) : p \in IndexPairs}

\* The IndexSchema relations the index-column relations are read against:
\* Users with its secondary index, and without it.
IndexRelations ==
  {<<IndexRow("Users", "ByName"), IndexRow("Users", "PRIMARY_KEY")>>,
   <<IndexRow("Users", "PRIMARY_KEY")>>}

-----------------------------------------------------------------------------
(* DatabaseMetadata.models *)

\* indexes[table_name]['PRIMARY_KEY'] on a table without that entry: the
\* defaultdict yields {} for an unknown table, and {}['PRIMARY_KEY'] raises
\* KeyError('PRIMARY_KEY').
MissingPrimaryKeyError == KeyError("PRIMARY_KEY")

\* type('Model_<table_name>', (Model,), {...})
klass(table_name, schema, primary_index) ==
  [primary_index_keys |-> primary_index, schema |-> schema, table |-> table_name]

\* A plausible slip: a table without a primary key is skipped.
make_models_skipping(tabs, indexes) ==
  LET keyed == {t \in DOMAIN tabs :
                  "PRIMARY_KEY" \in DOMAIN GetDefault(indexes, t, EmptyMap)}
  IN Return([t \in keyed |->
               klass(t, tabs[t], indexes[t]["PRIMARY_KEY"].columns)])

\* The loop of models over tables.items(), from the two folded maps.
make_models(tabs, indexes) ==
  IF \E t \in DOMAIN tabs :
       "PRIMARY_KEY" \notin DOMAIN GetDefault(indexes, t, EmptyMap)
  THEN Raise(MissingPrimaryKeyError)
  ELSE Return([t \in DOMAIN tabs |->
                 klass(t, tabs[t], indexes[t]["PRIMARY_KEY"].columns)])

models(txn) == make_models(_tables(txn), _indexes(txn))

-----------------------------------------------------------------------------
(* The relations models is run on *)

ModelColumnRowSet ==
  {r \in ColumnRowSet :
     InDefaultNamespace(r) /\ (r.type = "INT64" <=> r.column_name = "id")}

IndexColumnRow(t, i, c, o) ==
  [table_catalog |-> "", table_schema |-> "", table_name |-> t,
   index_name |-> i, column_name |-> c, ordinal_position |-> o]

\* Index columns of every index, held out of order.
ModelIndexColumns ==
  <<IndexColumnRow("Orders", "PRIMARY_KEY", "name", 2),
    IndexColumnRow("Users", "PRIMARY_KEY", "id", 1),
    IndexColumnRow("Users", "ByName", "id", None),
    IndexColumnRow("Orders", "PRIMARY_KEY", "id", 1),
    IndexColumnRow("Users", "ByName", "name", 1)>>

-----------------------------------------------------------------------------
(* Schema-change requests: spanner_orm.update *)

Variants == {"ColumnUpdate", "CreateTableUpdate", "IndexUpdate"}

Requests == [variant : Variants, table : TableNames]

isinstance(request, class) == request.variant = class

\* What validate() may answer: "ok", or the reason it rejects the request.
Verdicts == {"ok", "incompatible type", "primary key column"}

InvalidSchemaChangeError(reason) ==
  [exception |-> "InvalidSchemaChangeError", args |-> <<reason>>]

\* schema_change.ddl(*args): the statement, rendered from the descriptor
\* passed (args is <<model>>, or <<>> for ddl()).
ddl(request, args) ==
  [statement |-> request.variant, table |-> request.table, rendered_from |-> args]

-----------------------------------------------------------------------------
(* The database behind DatabaseAdminApi.update_schema *)

ColumnRow(t, c, ty) ==
  [table_catalog |-> "", table_schema |-> "", table_name |-> t,
   column_name |-> c, type |-> ty]

HasTable(cat, t) ==
  \E i \in 1..Len(cat.columns) :
    InDefaultNamespace(cat.columns[i]) /\ cat.columns[i].table_name = t

HasColumn(cat, t, c) ==
  \E i \in 1..Len(cat.columns) :
    /\ InDefaultNamespace(cat.columns[i])
    /\ cat.columns[i].table_name = t /\ cat.columns[i].column_name = c

HasIndex(cat, t, i) ==
  \E k \in 1..Len(cat.indexes) :
    /\ InDefaultNamespace(cat.indexes[k])
    /\ cat.indexes[k].table_name = t /\ cat.indexes[k].index_name = i

\* Whether the database accepts the statement in catalog state cat.
Accepts(cat, stmt) ==
  CASE stmt.statement = "CreateTableUpdate" -> ~HasTable(cat, stmt.table)
    [] stmt.statement = "ColumnUpdate" ->
         HasTable(cat, stmt.table) /\ ~HasColumn(cat, stmt.table, "email")
    [] stmt.statement = "IndexUpdate" ->
         HasTable(cat, stmt.table) /\ ~HasIndex(cat, stmt.table, "ByName")

\* The catalog after an accepted statement: a created table has columns id
\* and name and the key (id); a column update adds column email; an index
\* update adds index ByName on (name), storing id.
ApplyDDL(cat, stmt) ==
  CASE stmt.statement = "CreateTableUpdate" ->
         [columns |-> cat.columns \o <<ColumnRow(stmt.table, "name", "STRING"),
                                       ColumnRow(stmt.table, "id", "INT64")>>,
          index_columns |-> Append(cat.index_columns,
             IndexColumnRow(stmt.table, "PRIMARY_KEY", "id", 1)),
          indexes |-> Append(cat.indexes, IndexRow(stmt.table, "PRIMARY_KEY"))]
    [] stmt.statement = "ColumnUpdate" ->
         [cat EXCEPT !.columns = Append(@, ColumnRow(stmt.table, "email", "STRING"))]
    [] stmt.statement = "IndexUpdate" ->
         [cat EXCEPT
            !.index_columns = @ \o <<IndexColumnRow(stmt.table, "ByName", "id", None),
                                     IndexColumnRow(stmt.table, "ByName", "name", 1)>>,
            !.indexes = Append(@, IndexRow(stmt.table, "ByName"))]

DropTable(cat, t) ==
  LET kept(row) == ~(InDefaultNamespace(row) /\ row.table_name = t)
  IN [columns |-> SelectSeq(cat.columns, kept),
      index_columns |-> SelectSeq(cat.index_columns, kept),
      indexes |-> SelectSeq(cat.indexes, kept)]

\* The catalog's own relations, outside the default namespace.
SystemCatalog ==
  [columns |-> <<[table_catalog |-> "", table_schema |-> "INFORMATION_SCHEMA",
                  table_name |-> "COLUMNS", column_name |-> "TABLE_NAME",
                  type |-> "STRING"]>>,
   index_columns |-> <<[table_catalog |-> "", table_schema |-> "INFORMATION_SCHEMA",
                        table_name |-> "COLUMNS", index_name |-> "PRIMARY_KEY",
                        column_name |-> "TABLE_NAME", ordinal_position |-> 1]>>,
   indexes |-> <<[table_catalog |-> "", table_schema |-> "INFORMATION_SCHEMA",
                  table_name |-> "COLUMNS", index_name |-> "PRIMARY_KEY",
                  index_type |-> "PRIMARY_KEY", is_unique |-> TRUE,
                  index_state |-> "READ_WRITE"]>>]

InitialCatalog ==
  ApplyDDL(SystemCatalog, ddl([variant |-> "CreateTableUpdate", table |-> "Users"], <<>>))

-----------------------------------------------------------------------------
(* DatabaseMetadata.column_update, create_table, index_update *)

Methods == {"column_update", "create_table", "index_update"}

\* The failures of the three methods under the names the design gives them:
\* both assertions raise AssertionError, the lookup raises KeyError(table).
SchemaChangeTypeMismatchError == AssertionError
TableAlreadyExistsError == AssertionError
UnknownTableError(table) == KeyError(table)
CatalogReadError == [exception |-> "CatalogReadError", args |-> <<>>]
SubmissionError == [exception |-> "SubmissionError", args |-> <<>>]

\* One entry of a call's log: a collaborator call (or the method's own
\* table check), its arguments, and <<error>> when it raised.
Call(name, args, raised) == [call |-> name, args |-> args, raised |-> raised]

Expected(m) ==
  CASE m = "column_update" -> "ColumnUpdate"
    [] m = "create_table" -> "CreateTableUpdate"
    [] m = "index_update" -> "IndexUpdate"

\* A plausible slip: the method without its isinstance assertion.
type_unchecked(m, request) == TRUE

\* assert isinstance(schema_change, <the method's variant>)
type_checked(m, request) == isinstance(request, Expected(m))

\* How the part of a method after cls.models() ends: it raises, or it
\* reaches DatabaseAdminApi.update_schema with a rendered statement.
Aborts(log, error) == [events |-> log, raises |-> <<error>>, ddl |-> <<>>]
Submits(log, stmt) == [events |-> log, raises |-> <<>>, ddl |-> <<stmt>>]

\* A plausible slip: the statement is rendered before the request is validated.
render_then_validate(log, request, args, verdict) ==
  IF verdict # "ok"
  THEN Aborts(log \o <<Call("ddl", args, <<>>),
                       Call("validate", args, <<InvalidSchemaChangeError(verdict)>>)>>,
              InvalidSchemaChangeError(verdict))
  ELSE Submits(log \o <<Call("ddl", args, <<>>), Call("validate", args, <<>>)>>,
               ddl(request, args))

\* A plausible slip: a rejected validation is swallowed.
validate_ignored_then_render(log, request, args, verdict) ==
  Submits(log \o <<Call("validate", args,
                        IF verdict = "ok" THEN <<>>
                        ELSE <<InvalidSchemaChangeError(verdict)>>),
                   Call("ddl", args, <<>>)>>,
          ddl(request, args))

\* request.validate(*args) with the given verdict, then request.ddl(*args).
validate_then_render(log, request, args, verdict) ==
  IF verdict # "ok"
  THEN Aborts(Append(log, Call("validate", args,
                               <<InvalidSchemaChangeError(verdict)>>)),
              InvalidSchemaChangeError(verdict))
  ELSE Submits(log \o <<Call("validate", args, <<>>), Call("ddl", args, <<>>)>>,
               ddl(request, args))

\* A plausible slip: an unknown table is looked up with .get() and the
\* request goes on without a descriptor.
column_update_lenient(request, models_result, verdict) ==
  IF ~models_result.ok THEN Aborts(<<>>, models_result.error)
  ELSE LET found == IF request.table \in DOMAIN models_result.value
                    THEN <<models_result.value[request.table]>> ELSE <<>>
       IN validate_then_render(<<Call("check", <<request.table>>, <<>>)>>,
                               request, found, verdict)

\* column_update from the value of cls.models() on.
column_update(request, models_result, verdict) ==
  IF ~models_result.ok THEN Aborts(<<>>, models_result.error)
  ELSE IF request.table \notin DOMAIN models_result.value
       THEN Aborts(<<Call("check", <<request.table>>,
                          <<UnknownTableError(request.table)>>)>>,
                   UnknownTableError(request.table))
       ELSE validate_then_render(<<Call("check", <<request.table>>, <<>>)>>,
                                 request, <<models_result.value[request.table]>>,
                                 verdict)

\* A plausible slip: create_table validates before it checks the table.
create_table_validating_first(request, models_result, verdict) ==
  IF ~models_result.ok THEN Aborts(<<>>, models_result.error)
  ELSE IF verdict # "ok"
       THEN Aborts(<<Call("validate", <<>>, <<InvalidSchemaChangeError(verdict)>>)>>,
                   InvalidSchemaChangeError(verdict))
       ELSE IF request.table \in DOMAIN models_result.value
            THEN Aborts(<<Call("validate", <<>>, <<>>),
                          Call("check", <<request.table>>,
                               <<TableAlreadyExistsError>>)>>,
                        TableAlreadyExistsError)
            ELSE Submits(<<Call("validate", <<>>, <<>>),
                           Call("check", <<request.table>>, <<>>),
                           Call("ddl", <<>>, <<>>)>>,
                         ddl(request, <<>>))

\* A plausible slip: create_table without its not-in assertion.
create_table_unguarded(request, models_result, verdict) ==
  IF ~models_result.ok THEN Aborts(<<>>, models_result.error)
  ELSE validate_then_render(<<Call("check", <<request.table>>, <<>>)>>,
                            request, <<>>, verdict)

\* create_table from the value of cls.models() on.
create_table(request, models_result, verdict) ==
  IF ~models_result.ok THEN Aborts(<<>>, models_result.error)
  ELSE IF request.table \in DOMAIN models_result.value
       THEN Aborts(<<Call("check", <<request.table>>, <<TableAlreadyExistsError>>)>>,
                   TableAlreadyExistsError)
       ELSE validate_then_render(<<Call("check", <<request.table>>, <<>>)>>,
                                 request, <<>>, verdict)

\* index_update from the value of cls.models() on.
index_update(request, models_result, verdict) ==
  IF ~models_result.ok THEN Aborts(<<>>, models_result.error)
  ELSE IF request.table \notin DOMAIN models_result.value
       THEN Aborts(<<Call("check", <<request.table>>,
                          <<UnknownTableError(request.table)>>)>>,
                   UnknownTableError(request.table))
       ELSE validate_then_render(<<Call("check", <<request.table>>, <<>>)>>,
                                 request, <<models_result.value[request.table]>>,
                                 verdict)

Body(m, request, models_result, verdict) ==
  CASE m = "column_update" -> column_update(request, models_result, verdict)
    [] m = "create_table" -> create_table(request, models_result, verdict)
    [] m = "index_update" -> index_update(request, models_result, verdict)

-----------------------------------------------------------------------------
(* Calls in steps: one step per blocking collaborator call *)

\* A caller invokes one of the three methods: the isinstance assertion, and
\* on success the entry into cls.models() with no transaction.
Invoke(c) ==
  /\ pc[c] = "idle"
  /\ \E m \in Methods, request \in Requests :
       /\ method' = [method EXCEPT ![c] = m]
       /\ schema_change' = [schema_change EXCEPT ![c] = request]
       /\ IF type_checked(m, request)
          THEN /\ pc' = [pc EXCEPT ![c] = "ColumnSchema.where"]
               /\ UNCHANGED outcome
          ELSE /\ pc' = [pc EXCEPT ![c] = "raised"]
               /\ outcome' = [outcome EXCEPT
                                ![c] = Raise(SchemaChangeTypeMismatchError)]
  /\ UNCHANGED <<catalog, snapshots, called, result, transaction, tables,
                 index_columns, all_models, statement, events, changes>>

\* A caller invokes models(transaction): with None, or with a transaction
\* handle, which reads the catalog state it was begun on.
Invoke_models(c, txn) ==
  /\ pc[c] = "idle"
  /\ transaction' = [transaction EXCEPT ![c] = txn]
  /\ snapshots' = IF txn = None THEN snapshots
                  ELSE [snapshots EXCEPT ![txn] = Begin]
  /\ method' = [method EXCEPT ![c] = "models"]
  /\ pc' = [pc EXCEPT ![c] = "ColumnSchema.where"]
  /\ UNCHANGED <<catalog, called, result, schema_change, tables, index_columns,
                 all_models, statement, events, outcome, changes>>

InvokeModels(c) == \E txn \in {None, c} : Invoke_models(c, txn)

\* A caller invokes _indexes() directly, with no transaction.
Invoke_indexes(c) ==
  /\ pc[c] = "idle"
  /\ method' = [method EXCEPT ![c] = "_indexes"]
  /\ pc' = [pc EXCEPT ![c] = "IndexColumnSchema.where"]
  /\ UNCHANGED <<catalog, snapshots, called, result, schema_change, transaction,
                 tables, index_columns, all_models, statement, events, outcome,
                 changes>>

\* The fetch of _tables and its fold; a failing fetch ends the call.
FetchColumnSchema(c) ==
  /\ pc[c] = "ColumnSchema.where"
  /\ \/ /\ tables' = [tables EXCEPT ![c] = _tables(transaction[c])]
        /\ events' = [events EXCEPT ![c] =
             Append(@, Call("ColumnSchema.where", <<transaction[c]>>, <<>>))]
        /\ pc' = [pc EXCEPT ![c] = "IndexColumnSchema.where"]
        /\ UNCHANGED outcome
     \/ /\ events' = [events EXCEPT ![c] =
             Append(@, Call("ColumnSchema.where", <<transaction[c]>>,
                            <<CatalogReadError>>))]
        /\ pc' = [pc EXCEPT ![c] = "raised"]
        /\ outcome' = [outcome EXCEPT ![c] = Raise(CatalogReadError)]
        /\ UNCHANGED tables
  /\ snapshots' = Fetched(transaction[c])
  /\ UNCHANGED <<catalog, called, result, method, schema_change, transaction,
                 index_columns, all_models, statement, changes>>

\* The first fetch of _indexes and its fold.
FetchIndexColumnSchema(c) ==
  /\ pc[c] = "IndexColumnSchema.where"
  /\ \/ /\ index_columns' = [index_columns EXCEPT
                               ![c] = _indexes_index_columns(transaction[c])]
        /\ events' = [events EXCEPT ![c] =
             Append(@, Call("IndexColumnSchema.where", <<transaction[c]>>, <<>>))]
        /\ pc' = [pc EXCEPT ![c] = "IndexSchema.where"]
        /\ UNCHANGED outcome
     \/ /\ events' = [events EXCEPT ![c] =
             Append(@, Call("IndexColumnSchema.where", <<transaction[c]>>,
                            <<CatalogReadError>>))]
        /\ pc' = [pc EXCEPT ![c] = "raised"]
        /\ outcome' = [outcome EXCEPT ![c] = Raise(CatalogReadError)]
        /\ UNCHANGED index_columns
  /\ snapshots' = Fetched(transaction[c])
  /\ UNCHANGED <<catalog, called, result, method, schema_change, transaction,
                 tables, all_models, statement, changes>>

\* The second fetch of _indexes and its fold, which ends a direct call of
\* _indexes; in models(), the loop over the tables, and in a calling method
\* the steps up to its call of DatabaseAdminApi.update_schema.
FetchIndexSchema(c) ==
  /\ pc[c] = "IndexSchema.where"
  /\ \/ LET fetched == Call("IndexSchema.where", <<transaction[c]>>, <<>>)
            indexes == _indexes_indexes(transaction[c], index_columns[c])
            got == make_models(tables[c], indexes)
        IN CASE method[c] = "_indexes" ->
                  /\ events' = [events EXCEPT ![c] = Append(@, fetched)]
                  /\ outcome' = [outcome EXCEPT ![c] = Return(indexes)]
                  /\ pc' = [pc EXCEPT ![c] = "returned"]
                  /\ UNCHANGED <<all_models, statement>>
             [] method[c] = "models" ->
                  /\ all_models' = [all_models EXCEPT ![c] = got]
                  /\ events' = [events EXCEPT ![c] = Append(@, fetched)]
                  /\ outcome' = [outcome EXCEPT ![c] = got]
                  /\ pc' = [pc EXCEPT ![c] = IF got.ok THEN "returned" ELSE "raised"]
                  /\ UNCHANGED statement
             [] method[c] \in Methods ->
                  /\ all_models' = [all_models EXCEPT ![c] = got]
                  /\ \E verdict \in Verdicts :
                       LET rest == Body(method[c], schema_change[c], got, verdict)
                       IN /\ events' = [events EXCEPT
                                          ![c] = Append(@, fetched) \o rest.events]
                          /\ statement' = [statement EXCEPT ![c] = rest.ddl]
                          /\ IF rest.raises = <<>>
                             THEN /\ pc' = [pc EXCEPT ![c] = "update_schema"]
                                  /\ UNCHANGED outcome
                             ELSE /\ pc' = [pc EXCEPT ![c] = "raised"]
                                  /\ outcome' = [outcome EXCEPT
                                                   ![c] = Raise(rest.raises[1])]
     \/ /\ events' = [events EXCEPT ![c] =
             Append(@, Call("IndexSchema.where", <<transaction[c]>>,
                            <<CatalogReadError>>))]
        /\ pc' = [pc EXCEPT ![c] = "raised"]
        /\ outcome' = [outcome EXCEPT ![c] = Raise(CatalogReadError)]
        /\ UNCHANGED <<all_models, statement>>
  /\ snapshots' = Fetched(transaction[c])
  /\ UNCHANGED <<catalog, called, result, method, schema_change, transaction,
                 tables, index_columns, changes>>

\* DatabaseAdminApi.update_schema(ddl): the database applies the statement,
\* or the submission fails (undelivered, or rejected by the database).
UpdateSchema(c) ==
  /\ pc[c] = "update_schema"
  /\ \E delivered \in BOOLEAN :
       IF delivered /\ Accepts(catalog, statement[c][1])
       THEN /\ catalog' = ApplyDDL(catalog, statement[c][1])
            /\ events' = [events EXCEPT ![c] =
                 Append(@, Call("update_schema", statement[c], <<>>))]
            /\ pc' = [pc EXCEPT ![c] = "returned"]
            /\ outcome' = [outcome EXCEPT ![c] = Return(None)]
       ELSE /\ UNCHANGED catalog
            /\ events' = [events EXCEPT ![c] =
                 Append(@, Call("update_schema", statement[c], <<SubmissionError>>))]
            /\ pc' = [pc EXCEPT ![c] = "raised"]
            /\ outcome' = [outcome EXCEPT ![c] = Raise(SubmissionError)]
  /\ UNCHANGED <<snapshots, called, result, method, schema_change, transaction,
                 tables, index_columns, all_models, statement, changes>>

\* Another actor changes the schema: it drops a table, or has the database
\* apply a statement of its own.
ExternalSchemaChange ==
  /\ changes < MaxExternalChanges
  /\ changes' = changes + 1
  /\ \E t \in TableNames :
       \/ /\ HasTable(catalog, t)
          /\ catalog' = DropTable(catalog, t)
       \/ \E request \in Requests :
            /\ request.table = t
            /\ Accepts(catalog, ddl(request, <<>>))
            /\ catalog' = ApplyDDL(catalog, ddl(request, <<>>))
  /\ UNCHANGED <<snapshots, called, result, pc, method, schema_change,
                 transaction, tables, index_columns, all_models, statement,
                 events, outcome>>

\* Another actor changes the schema while caller c is between two of its
\* catalog reads.
ConcurrentSchemaChange(c) ==
  /\ pc[c] \in {"IndexColumnSchema.where", "IndexSchema.where"}
  /\ events[c] # <<>>
  /\ ExternalSchemaChange

Init ==
  /\ catalog = InitialCatalog
  /\ called = "none"
  /\ result = None
  /\ Idle

Next ==
  \/ \E c \in Callers : Invoke(c)
  \/ \E c \in Callers : FetchColumnSchema(c)
  \/ \E c \in Callers : FetchIndexColumnSchema(c)
  \/ \E c \in Callers : FetchIndexSchema(c)
  \/ \E c \in Callers : UpdateSchema(c)
  \/ ExternalSchemaChange

Spec == Init /\ [][Next]_vars

\* The migration calls alone, with no other actor.
NextMigrations ==
  \/ \E c \in Callers : Invoke(c)
  \/ \E c \in Callers : FetchColumnSchema(c)
  \/ \E c \in Callers : FetchIndexColumnSchema(c)
  \/ \E c \in Callers : FetchIndexSchema(c)
  \/ \E c \in Callers : UpdateSchema(c)

SpecMigrations == Init /\ [][NextMigrations]_vars

-----------------------------------------------------------------------------
(* Calls of models(transaction) while the schema changes *)

NextTxn ==
  \/ \E c \in Callers : InvokeModels(c)
  \/ \E c \in Callers : FetchColumnSchema(c)
  \/ \E c \in Callers : FetchIndexColumnSchema(c)
  \/ \E c \in Callers : FetchIndexSchema(c)
  \/ ExternalSchemaChange

SpecTxn == Init /\ [][NextTxn]_vars

-----------------------------------------------------------------------------
(* Properties of the three methods *)

CallNames(c) == [i \in 1..Len(events[c]) |-> events[c][i].call]

Made(c, name) == \E i \in 1..Len(events[c]) : events[c][i].call = name

\* C1: create_table with a request whose table is a key of the model map
\* models() returned in that call fails with TableAlreadyExistsError, and
\* neither request.validate nor DatabaseAdminApi.update_schema is called.
CreateExistingTableFails ==
  \A c \in Callers :
    (/\ method[c] = "create_table"
     /\ all_models[c].ok
     /\ schema_change[c].table \in DOMAIN all_models[c].value)
    => /\ pc[c] = "raised"
       /\ outcome[c] = Raise(TableAlreadyExistsError)
       /\ ~Made(c, "validate")
       /\ ~Made(c, "update_schema")

\* create_table was called for a table models() returned.
CreateExistingTableWitness ==
  \E c \in Callers :
    /\ method[c] = "create_table"
    /\ isinstance(schema_change[c], "CreateTableUpdate")
    /\ all_models[c].ok
    /\ schema_change[c].table \in DOMAIN all_models[c].value
    /\ pc[c] = "raised"

\* C2: column_update and index_update with a request whose table is not a
\* key of the model map models() returned in that call fail with
\* UnknownTableError, and DatabaseAdminApi.update_schema is not called.
UnknownTableFails ==
  \A c \in Callers :
    (/\ method[c] \in {"column_update", "index_update"}
     /\ all_models[c].ok
     /\ schema_change[c].table \notin DOMAIN all_models[c].value)
    => /\ pc[c] = "raised"
       /\ outcome[c] = Raise(UnknownTableError(schema_change[c].table))
       /\ ~Made(c, "update_schema")

\* A column_update and an index_update were each called for a table that
\* models() did not return.
UnknownTableWitness ==
  \E c, d \in Callers :
    /\ method[c] = "column_update" /\ method[d] = "index_update"
    /\ isinstance(schema_change[c], "ColumnUpdate")
    /\ isinstance(schema_change[d], "IndexUpdate")
    /\ all_models[c].ok /\ all_models[d].ok
    /\ schema_change[c].table \notin DOMAIN all_models[c].value
    /\ schema_change[d].table \notin DOMAIN all_models[d].value
    /\ pc[c] = "raised" /\ pc[d] = "raised"

\* C3: a request that is not of the variant the method expects makes the
\* call fail with the type-mismatch error before any catalog read: no
\* fetch, no validate and no DDL submission happens in that call.
TypeMismatchFailsFirst ==
  \A c \in Callers :
    (method[c] \in Methods /\ ~isinstance(schema_change[c], Expected(method[c])))
    => /\ pc[c] = "raised"
       /\ outcome[c] = Raise(SchemaChangeTypeMismatchError)
       /\ events[c] = <<>>

\* column_update was handed an IndexUpdate and create_table a ColumnUpdate.
TypeMismatchWitness ==
  \E c, d \in Callers :
    /\ method[c] = "column_update" /\ schema_change[c].variant = "IndexUpdate"
    /\ method[d] = "create_table" /\ schema_change[d].variant = "ColumnUpdate"
    /\ pc[c] = "raised" /\ pc[d] = "raised"

\* C4: when request.validate rejects the request, the call ends with the
\* very error validate raised, and no DDL is rendered or submitted in it.
RejectedValidationSubmitsNothing ==
  \A c \in Callers : \A i \in 1..Len(events[c]) :
    (events[c][i].call = "validate" /\ events[c][i].raised # <<>>)
    => /\ pc[c] = "raised"
       /\ outcome[c] = Raise(events[c][i].raised[1])
       /\ ~Made(c, "ddl")
       /\ ~Made(c, "update_schema")

\* A create_table and a column_update were each rejected by validate, for
\* different reasons.
RejectedValidationWitness ==
  \E c, d \in Callers :
    /\ method[c] = "create_table" /\ method[d] = "column_update"
    /\ pc[c] = "raised" /\ pc[d] = "raised"
    /\ outcome[c] = Raise(InvalidSchemaChangeError("primary key column"))
    /\ outcome[d] = Raise(InvalidSchemaChangeError("incompatible type"))
    /\ Made(c, "validate") /\ Made(d, "validate")

IsPrefix(s, t) == Len(s) <= Len(t) /\ \A i \in 1..Len(s) : s[i] = t[i]

\* The order of a successful call: the three catalog reads of models(),
\* the table check, validate, ddl, update_schema.
SuccessfulCall ==
  <<"ColumnSchema.where", "IndexColumnSchema.where", "IndexSchema.where",
    "check", "validate", "ddl", "update_schema">>

\* The descriptor a method passes to validate and ddl.
DescriptorArgs(c) ==
  IF method[c] = "create_table" THEN <<>>
  ELSE <<all_models[c].value[schema_change[c].table]>>

\* C9: every call of the three methods goes through the catalog reads and
\* the table check, then validate, then ddl, then update_schema, or stops
\* at the first of them that fails; a call that returns has made each of
\* them once, update_schema last, with the statement rendered from the
\* descriptor that was validated (none for create_table); no call submits
\* twice.
CallFollowsStateMachine ==
  \A c \in Callers :
    method[c] \in Methods =>
      /\ IsPrefix(CallNames(c), SuccessfulCall)
      /\ \A i \in 1..Len(events[c]) :
           events[c][i].raised # <<>> => (i = Len(events[c]) /\ pc[c] = "raised")
      /\ pc[c] = "update_schema" => Len(events[c]) = 6
      /\ pc[c] = "returned" => Len(events[c]) = 7
      /\ Len(events[c]) >= 6 =>
           /\ events[c][5].args = DescriptorArgs(c)
           /\ events[c][6].args = events[c][5].args
           /\ statement[c] = <<ddl(schema_change[c], events[c][5].args)>>
      /\ Len(events[c]) = 7 => events[c][7].args = statement[c]

\* A create_table and an index_update both returned.
StateMachineWitness ==
  \E c, d \in Callers :
    /\ method[c] = "create_table" /\ method[d] = "index_update"
    /\ pc[c] = "returned" /\ pc[d] = "returned"
    /\ outcome[c] = Return(None) /\ outcome[d] = Return(None)

\* Whether the request of caller c fits model map m: a created table is
\* not in it, an updated table is.
TargetFits(c, m) ==
  /\ m.ok
  /\ IF schema_change[c].variant = "CreateTableUpdate"
     THEN schema_change[c].table \notin DOMAIN m.value
     ELSE schema_change[c].table \in DOMAIN m.value

\* C10 as stated: whenever a call submits its DDL, its target fits the
\* model map of the catalog as it is at that moment.
SubmitFitsCurrentCatalog ==
  [][\A c \in Callers :
       (pc[c] = "update_schema" /\ pc'[c] # "update_schema")
       => TargetFits(c, models(None))]_vars

\* C10, amended: whenever a call is about to submit its DDL, its target
\* fits the model map that call's own models() returned; the catalog may
\* have changed since.
SubmitFitsCatalogAsRead ==
  \A c \in Callers :
    pc[c] = "update_schema" => TargetFits(c, all_models[c])

\* Two create_table calls for one table both read the catalog before
\* either submitted; one has created the table, the other is about to
\* submit.
SubmitRaceWitness ==
  \E c, d \in Callers :
    /\ c # d
    /\ method[c] = "create_table" /\ method[d] = "create_table"
    /\ schema_change[c].table = schema_change[d].table
    /\ pc[c] = "returned" /\ pc[d] = "update_schema"
    /\ HasTable(catalog, schema_change[d].table)

-----------------------------------------------------------------------------
(* Properties of models(transaction) *)

\* C8: a call of models with a transaction handle reads all three catalog
\* relations through that handle: what it returns is what models gives on
\* the one catalog state the handle reads, whatever other actors changed
\* between the reads (no torn view).
ModelsReadOneSnapshot ==
  \A c \in Callers :
    (/\ method[c] = "models"
     /\ transaction[c] # None
     /\ pc[c] \in {"returned", "raised"}
     /\ outcome[c] # Raise(CatalogReadError))
    => outcome[c] = models(transaction[c])

\* A call with a transaction returned the snapshot's models although the
\* schema changed between its first and its last fetch.
ModelsSnapshotWitness ==
  \E c \in Callers :
    /\ method[c] = "models"
    /\ transaction[c] = c
    /\ pc[c] = "returned"
    /\ Len(snapshots[c].read_at) = 3
    /\ snapshots[c].read_at[1] < snapshots[c].read_at[3]
    /\ outcome[c] # models(None)

-----------------------------------------------------------------------------
(* Calls of _indexes() on every small IndexColumnSchema relation, while *)
(* the schema changes                                                    *)

\* The caller that is followed; reads do not affect one another.
Reader == CHOOSE c \in Callers : \A d \in Callers : c <= d

InitIndexes ==
  /\ \E rows \in BoundedSeq(IndexColumnRowSet, MaxIndexColumnRows) :
       \E idx \in IndexRelations :
         catalog = [InitialCatalog EXCEPT
                      !.index_columns = SystemCatalog.index_columns \o rows,
                      !.indexes = SystemCatalog.indexes \o idx]
  /\ called = "none"
  /\ result = None
  /\ Idle

NextIndexes ==
  \/ Invoke_indexes(Reader)
  \/ FetchIndexColumnSchema(Reader)
  \/ FetchIndexSchema(Reader)
  \/ ConcurrentSchemaChange(Reader)

SpecIndexes == InitIndexes /\ [][NextIndexes]_vars

\* The IndexColumnSchema rows of index i of table t in catalog state cat
\* whose ordinal_position is present, in the order the catalog holds them.
KeyRows(cat, t, i) ==
  SelectSeq(cat.index_columns,
            LAMBDA r : /\ r.table_name = t /\ r.index_name = i
                       /\ r.ordinal_position # None /\ InDefaultNamespace(r))

\* cols lists the column names of all of rows, each row once, in an order
\* in which ordinal_position never decreases.
IsAscendingListing(cols, rows) ==
  /\ Len(cols) = Len(rows)
  /\ \E p \in [1..Len(rows) -> 1..Len(rows)] :
       /\ \A k, l \in 1..Len(rows) : k # l => p[k] # p[l]
       /\ \A k \in 1..Len(rows) : cols[k] = rows[p[k]].column_name
       /\ \A k, l \in 1..Len(rows) :
            k < l => rows[p[k]].ordinal_position <= rows[p[l]].ordinal_position

\* C5: for every (table, index) pair in the result of _indexes, 'columns'
\* is exactly the column names of that pair's IndexColumnSchema rows whose
\* ordinal_position is present, in ascending ordinal_position order,
\* whatever order the catalog holds the rows in; rows without a position
\* and rows of other pairs never appear in it.  The rows are those of the
\* catalog at the IndexColumnSchema fetch: the fold of that fetch lists
\* them so, and _indexes returns, for each index of the later IndexSchema
\* fetch, the sequence that fold holds for it.
IndexColumnsAscending ==
  [][\A c \in Callers :
       /\ (pc[c] = "IndexColumnSchema.where" /\ pc'[c] = "IndexSchema.where")
          => LET cat == Read(transaction[c])
                 held == {<<cat.index_columns[k].table_name,
                            cat.index_columns[k].index_name>> :
                            k \in 1..Len(cat.index_columns)}
             IN \A p \in held \cup DOMAIN index_columns'[c] :
                  IsAscendingListing(GetDefault(index_columns'[c], p, <<>>),
                                     KeyRows(cat, p[1], p[2]))
       /\ (method[c] = "_indexes" /\ pc[c] = "IndexSchema.where"
           /\ pc'[c] = "returned")
          => \A t \in DOMAIN outcome'[c].value :
               \A i \in DOMAIN outcome'[c].value[t] :
                 outcome'[c].value[t][i].columns =
                   GetDefault(index_columns[c], <<t, i>>, <<>>)]_vars

\* An index whose catalog rows are held out of position order, next to a
\* row without a position, was read into a two-column sequence, on a
\* catalog nobody changed meanwhile.
IndexesWitness ==
  \E c \in Callers :
    /\ method[c] = "_indexes"
    /\ pc[c] = "returned"
    /\ changes = 0
    /\ \E t \in DOMAIN outcome[c].value : \E i \in DOMAIN outcome[c].value[t] :
         /\ Len(outcome[c].value[t][i].columns) = 2
         /\ Len(KeyRows(catalog, t, i)) = 2
         /\ KeyRows(catalog, t, i)[1].ordinal_position
              > KeyRows(catalog, t, i)[2].ordinal_position
         /\ KeyRows(catalog, t, i)[1].column_name
              # KeyRows(catalog, t, i)[2].column_name
         /\ \E k \in DOMAIN catalog.index_columns :
              /\ catalog.index_columns[k].ordinal_position = None
              /\ catalog.index_columns[k].table_name = t
              /\ catalog.index_columns[k].index_name = i

-----------------------------------------------------------------------------
(* Calls of models(), with no transaction, on small catalogs, while the   *)
(* schema changes                                                         *)

InitModels ==
  /\ \E cols \in BoundedSeq(ModelColumnRowSet, MaxColumnRows) :
       \E idx \in BoundedSeq(IndexRowSet, MaxIndexRows) :
         catalog = [columns |-> SystemCatalog.columns \o cols,
                    index_columns |-> SystemCatalog.index_columns
                                        \o ModelIndexColumns,
                    indexes |-> SystemCatalog.indexes \o idx]
  /\ called = "none"
  /\ result = None
  /\ Idle

NextModels ==
  \/ Invoke_models(Reader, None)
  \/ FetchColumnSchema(Reader)
  \/ FetchIndexColumnSchema(Reader)
  \/ FetchIndexSchema(Reader)
  \/ ConcurrentSchemaChange(Reader)

SpecModels == InitModels /\ [][NextModels]_vars

\* The tables of catalog state cat that have a PRIMARY_KEY index row.
KeyedTables(cat) ==
  {cat.indexes[i].table_name :
     i \in {j \in 1..Len(cat.indexes) :
              /\ InDefaultNamespace(cat.indexes[j])
              /\ cat.indexes[j].index_name = "PRIMARY_KEY"}}

\* C6: models returns, for every table of the column catalog (the tables
\* its ColumnSchema fetch gave), a descriptor whose primary_index_keys is
\* the 'columns' sequence of the table's PRIMARY_KEY entry in the index
\* map, whose schema is the table's column map and whose table is its
\* name; when a table of the column catalog has no PRIMARY_KEY entry in the
\* index map (or no index at all) the call fails with
\* MissingPrimaryKeyError and returns no map.  The index map has an entry
\* for each index the IndexSchema fetch gives, with the columns the
\* IndexColumnSchema fetch gave for it.
ModelsCarryPrimaryKey ==
  [][\A c \in Callers :
       (/\ method[c] = "models"
        /\ pc[c] = "IndexSchema.where"
        /\ pc'[c] \in {"returned", "raised"}
        /\ outcome'[c] # Raise(CatalogReadError))
       => IF DOMAIN tables[c] \subseteq KeyedTables(Read(transaction[c]))
          THEN /\ outcome'[c].ok
               /\ DOMAIN outcome'[c].value = DOMAIN tables[c]
               /\ \A t \in DOMAIN tables[c] :
                    /\ outcome'[c].value[t].primary_index_keys =
                         GetDefault(index_columns[c], <<t, "PRIMARY_KEY">>, <<>>)
                    /\ outcome'[c].value[t].schema = tables[c][t]
                    /\ outcome'[c].value[t].table = t
          ELSE outcome'[c] = Raise(MissingPrimaryKeyError)]_vars

\* Both tables were synthesized, Orders with its two-column key in
\* position order.
ModelsWitness ==
  \E c \in Callers :
    /\ method[c] = "models"
    /\ pc[c] = "returned"
    /\ DOMAIN outcome[c].value = {"Users", "Orders"}
    /\ outcome[c].value["Orders"].primary_index_keys = <<"id", "name">>
    /\ outcome[c].value["Users"].primary_index_keys = <<"id">>

====
